---- MODULE Spec2Model ----
(***************************************************************************)
(* Model of the Agent Task Executor (executor/index.js): the queue         *)
(* consumer (main / processTask), the execution supervisor (executeTask),  *)
(* the progress publisher (updateProgress), the container runtime with     *)
(* AutoRemove, and the periodic cleanup sweeper (cleanup); and of the      *)
(* in-process executeTask of the API server (src/api/server.js).           *)
(***************************************************************************)
EXTENDS Integers, Sequences, FiniteSets, TLC

\* ------------------------------------------------------------------ bounds
MaxTasks == 2          \* task envelopes the submitter may enqueue
MaxMsgs == MaxTasks    \* messages of either kind that are enqueued in all
MaxBad == 1            \* non-JSON messages the submitter may enqueue
MaxN == 2              \* largest configured docker.maxContainers explored
TaskTimeout == 1       \* config.agent.taskTimeout, in clock ticks
CleanupAfterMs == 2    \* config.agent.cleanupAfterMs, in clock ticks
MaxAge == CleanupAfterMs + 1   \* ages are tracked up to "older than cleanupAfterMs"

Tasks == 1..MaxTasks

MaxRequests == 2       \* concurrent POST /api/v1/tasks requests of one user
InitialCredits == 1    \* the user's credit balance when the requests arrive
Requests == 1..MaxRequests
NoTask == 0
NoExit == -1           \* container.wait() has not returned a StatusCode

VARIABLES
  maxContainers,     \* MAX_CONTAINERS, read from the configuration at start-up
  queue,             \* the redis list: index 1 is its left end, Len its right end
  activeContainers,  \* keys of the activeContainers Map
  docker,            \* runtime: task id -> state of the container named prefix+id
  age,               \* runtime: task id -> ticks since the container was created
  record,            \* redis hash task:<id>  (persisted Task State)
  published,         \* events published on channel progress:<id>, oldest first
  pc,                \* where the consumer's single flow of control stands
  cur,               \* taskId of the task being processed (NoTask if none)
  err,               \* the error being propagated ("none" if none)
  success,           \* result.success of the executeTask result in hand
  spc,               \* where the sweeper stands
  slist,             \* containers listed by the running sweeper tick, not yet visited
  nSubmitted,        \* envelopes enqueued so far (ids are handed out in order)
  nBad,              \* malformed messages enqueued so far
  registered,        \* history: task id -> number of activeContainers.set calls
  removed,           \* history: task id -> number of activeContainers.delete calls
  envCreated,        \* history: task ids for which docker.createContainer succeeded
  exitCode,          \* history: task id -> StatusCode returned by container.wait (NoExit before)
  errOf,             \* history: task id -> error raised while processing it ("none" if none)
  submittedWhile,    \* history: task id -> task whose environment was running at submission
  webhookUrl,        \* task id -> whether the record task:<id> carries a webhookUrl
  delivered,         \* history: task id -> number of webhook POSTs issued for the task
  usage,             \* the redis counters usage:<key prefix>:completed and :failed
  artifact,          \* the file <taskId>_result.json left in the workspace for the task in hand
  resultData,        \* result.result of the executeTask result in hand
  stopRejected,      \* container.stop of the task in hand rejected in the finally block
  sstale,            \* history: containers older than cleanupAfterMs when the running tick listed
  apiPc,             \* API server: where the in-process executeTask of the submitted task stands
  apiTools,          \* API server: tools.length of the submitted task (NullTools: no length)
  apiI,              \* API server: the loop index i of executeTask
  taskResults,       \* API server: the taskResults entry the poll handler reads
  apiWrites,         \* history: every progress value given to updateTaskProgress, oldest first
  apiFailed,         \* history: executeTask ended in its catch block
  pgCredits,         \* api/index.js: users.credits of the submitting user (PostgreSQL)
  pgPc,              \* api/index.js: request -> where its POST /api/v1/tasks handler stands
  pgTasks,           \* api/index.js: requests for which a row of the tasks table exists
  dbCredits,         \* API server: users.credits of the submitting user (SQLite)
  dbPc,              \* API server: request -> where its POST /api/v1/tasks handler stands
  dbTasks            \* API server: requests for which createTask stored a task

vars == <<maxContainers, queue, activeContainers, docker, age, record, published,
          pc, cur, err, success, spc, slist, nSubmitted, nBad, registered, removed,
          envCreated, exitCode, errOf, submittedWhile, webhookUrl, delivered, usage,
          artifact, resultData, stopRejected, sstale, apiPc, apiTools, apiI, taskResults,
          apiWrites, apiFailed, pgCredits, pgPc, pgTasks, dbCredits, dbPc, dbTasks>>

consumerVars == <<pc, cur, err, success>>
sweeperVars == <<spc, slist, sstale>>
storeVars == <<record, published, delivered>>
runtimeVars == <<docker, age>>
submitVars == <<nSubmitted, nBad, submittedWhile, webhookUrl>>
resultVars == <<artifact, resultData, stopRejected>>
historyVars == <<registered, removed, envCreated, exitCode, errOf>>
creditVars == <<pgCredits, pgPc, pgTasks, dbCredits, dbPc, dbTasks>>
apiVars == <<apiPc, apiTools, apiI, taskResults, apiWrites, apiFailed, creditVars>>
executorVars ==
  <<maxContainers, queue, activeContainers, runtimeVars, storeVars, consumerVars, sweeperVars,
    submitVars, historyVars, usage, resultVars>>

\* ------------------------------------------------------------- messages
\* A raw queue message: the text of a task envelope, or text that is not JSON.
Envelope(t) == [json |-> TRUE, id |-> t]
Garbage == [json |-> FALSE, id |-> NoTask]

\* JSON.parse: throws on text that is not JSON, else yields the envelope's fields.
JSONparse(m) == IF m.json THEN [ok |-> TRUE, id |-> m.id] ELSE [ok |-> FALSE, id |-> NoTask]

\* redis list operations
LPUSH(q, m) == <<m>> \o q
BRPOP(q) == [msg |-> q[Len(q)], rest |-> SubSeq(q, 1, Len(q) - 1)]
LPOP(q) == [msg |-> Head(q), rest |-> Tail(q)]

\* ------------------------------------------------------------- progress events
NoRecord ==
  [status |-> "absent", progress |-> -1, step |-> "absent", message |-> "absent",
   result |-> "absent"]

StartingEvent ==
  [status |-> "running", progress |-> 10, step |-> "starting", message |-> "Task started"]
InitializingEventLow ==
  [status |-> "running", progress |-> 3, step |-> "initializing",
   message |-> "Preparing execution environment"]
InitializingEvent ==
  [status |-> "running", progress |-> 30, step |-> "initializing",
   message |-> "Preparing execution environment"]
FinalizingEvent ==
  [status |-> "running", progress |-> 90, step |-> "finalizing", message |-> "Saving results"]
ErrorEvent(e) ==
  [status |-> "failed", progress |-> 0, step |-> "error", message |-> e]

\* redis.hset of updateProgress: progress, step and message are written; status is not.
\* A field the caller left out is written too, with its default:
\* `progress.progress?.toString() || '0'`, `progress.step || ''`, `progress.message || ''`.
HsetProgress(rec, ev) ==
  [rec EXCEPT !.progress = IF ev.progress = -1 THEN 0 ELSE ev.progress,
              !.step = IF ev.step = "absent" THEN "" ELSE ev.step,
              !.message = IF ev.message = "absent" THEN "" ELSE ev.message]

\* updateProgress(taskId, progress): hset, then publish the event as given, then
\* hgetall and, when the record carries a webhookUrl, one fetch POST of the event.
UpdateProgress(t, ev) ==
  /\ record' = [record EXCEPT ![t] = HsetProgress(record[t], ev)]
  /\ published' = [published EXCEPT ![t] = Append(published[t], ev)]
  /\ delivered' = IF webhookUrl[t] THEN [delivered EXCEPT ![t] = @ + 1] ELSE delivered

\* updateProgress awaits the fetch it has issued (position `fetching`) before it
\* returns to its caller (position `next`); without a webhookUrl it returns at once.
AwaitFetch(t, fetching, next) == IF webhookUrl[t] THEN fetching ELSE next

\* Where the consumer resumes when the awaited fetch settles.
ResumeAt ==
  [p \in {"fetch@starting", "fetch@initializing", "fetch@finalizing", "fetch@catch"} |->
     CASE p = "fetch@starting" -> "initializing"
       [] p = "fetch@initializing" -> "acquire"
       [] p = "fetch@finalizing" -> "save"
       [] p = "fetch@catch" -> "dequeue"]

\* The final hset of processTask and the final publish. Of the stringified result
\* the record keeps here whether result.result is null or the artifact's data.
FinalRecord(ok, res) ==
  [status |-> IF ok THEN "completed" ELSE "failed",
   progress |-> IF ok THEN 100 ELSE 0,
   step |-> IF ok THEN "completed" ELSE "failed",
   message |-> IF ok THEN "Task completed successfully" ELSE "Task failed",
   result |-> res]
FinalEvent(ok) ==
  [status |-> IF ok THEN "completed" ELSE "failed",
   progress |-> IF ok THEN 100 ELSE 0,
   step |-> IF ok THEN "completed" ELSE "failed",
   message |-> IF ok THEN "Task completed" ELSE "Task failed"]

\* ------------------------------------------------------------- initial state
Init ==
  /\ maxContainers \in 1..MaxN
  /\ queue = <<>>
  /\ activeContainers = {}
  /\ docker = [t \in Tasks |-> "none"]
  /\ age = [t \in Tasks |-> 0]
  /\ record = [t \in Tasks |-> NoRecord]
  /\ published = [t \in Tasks |-> <<>>]
  /\ pc = "dequeue"
  /\ cur = NoTask
  /\ err = "none"
  /\ success = FALSE
  /\ spc = "idle"
  /\ slist = {}
  /\ nSubmitted = 0
  /\ nBad = 0
  /\ registered = [t \in Tasks |-> 0]
  /\ removed = [t \in Tasks |-> 0]
  /\ envCreated = {}
  /\ exitCode = [t \in Tasks |-> NoExit]
  /\ errOf = [t \in Tasks |-> "none"]
  /\ submittedWhile = [t \in Tasks |-> NoTask]
  /\ webhookUrl = [t \in Tasks |-> FALSE]
  /\ delivered = [t \in Tasks |-> 0]
  /\ usage = [completed |-> 0, failed |-> 0]
  /\ artifact = "unwritten"
  /\ resultData = "null"
  /\ stopRejected = FALSE
  /\ sstale = {}
  /\ apiPc = "idle"
  /\ apiTools = 0
  /\ apiI = 0
  /\ taskResults = [status |-> "absent", progress |-> 0, step |-> "absent"]
  /\ apiWrites = <<>>
  /\ apiFailed = FALSE
  /\ pgCredits = InitialCredits
  /\ pgPc = [r \in Requests |-> "idle"]
  /\ pgTasks = {}
  /\ dbCredits = InitialCredits
  /\ dbPc = [r \in Requests |-> "idle"]
  /\ dbTasks = {}

\* The task whose environment is running now (NoTask if none).
RunningTask == IF \E t \in Tasks : docker[t] = "running"
               THEN CHOOSE t \in Tasks : docker[t] = "running"
               ELSE NoTask

\* ------------------------------------------------------------- submitter
\* The external submission layer pushes an envelope with a fresh id, after writing
\* the task record; every second task is submitted with a webhookUrl.
HasWebhook(t) == t % 2 = 0
Submit ==
  /\ nSubmitted < MaxTasks
  /\ nSubmitted + nBad < MaxMsgs
  /\ nSubmitted' = nSubmitted + 1
  /\ webhookUrl' = [webhookUrl EXCEPT ![nSubmitted + 1] = HasWebhook(nSubmitted + 1)]
  /\ queue' = LPUSH(queue, Envelope(nSubmitted + 1))
  /\ submittedWhile' = [submittedWhile EXCEPT ![nSubmitted + 1] = RunningTask]
  /\ UNCHANGED <<apiVars, maxContainers, usage, resultVars, activeContainers, runtimeVars,
                 storeVars, consumerVars,
                 sweeperVars, nBad, historyVars>>

\* Something pushes a message that is not JSON.
SubmitGarbage ==
  /\ nBad < MaxBad
  /\ nSubmitted + nBad < MaxMsgs
  /\ nBad' = nBad + 1
  /\ queue' = LPUSH(queue, Garbage)
  /\ UNCHANGED <<apiVars, maxContainers, usage, resultVars, activeContainers, runtimeVars,
                 storeVars, consumerVars,
                 sweeperVars, nSubmitted, submittedWhile, webhookUrl, historyVars>>

\* ------------------------------------------------------------- consumer
\* main: `while (true) { await processTask(); }` -- the next brpop is issued only
\* when the previous processTask has returned.
ConsumerIdleNoAwait == pc \in {"dequeue", "wait"}
ConsumerIdle == pc = "dequeue"

\* Raise error e while processing the current task, inside processTask's try.
Throw(e, where) ==
  /\ err' = e
  /\ pc' = where
  /\ errOf' = IF cur \in Tasks THEN [errOf EXCEPT ![cur] = e] ELSE errOf

\* processTask: brpop, then JSON.parse of the message.
Dequeue ==
  /\ ConsumerIdle
  /\ queue # <<>>
  /\ LET got == BRPOP(queue)
         env == JSONparse(got.msg)
     IN /\ queue' = got.rest
        /\ IF env.ok
           THEN /\ cur' = env.id
                /\ pc' = "starting"
                /\ err' = "none"
           ELSE /\ cur' = NoTask
                /\ pc' = "catch"
                /\ err' = "malformed"
  /\ success' = FALSE
  /\ UNCHANGED <<apiVars, maxContainers, usage, resultVars, activeContainers, runtimeVars,
                 storeVars, sweeperVars,
                 submitVars, historyVars>>

\* processTask: first updateProgress (10%, starting).
Starting ==
  /\ pc = "starting"
  /\ UpdateProgress(cur, StartingEvent)
  /\ pc' = AwaitFetch(cur, "fetch@starting", "initializing")
  /\ UNCHANGED <<apiVars, maxContainers, usage, resultVars, queue, activeContainers,
                 runtimeVars, cur, err, success,
                 sweeperVars, submitVars, historyVars>>

\* processTask: second updateProgress (30%, initializing), before executeTask is called.
Initializing ==
  /\ pc = "initializing"
  /\ UpdateProgress(cur, InitializingEvent)
  /\ pc' = AwaitFetch(cur, "fetch@initializing", "acquire")
  /\ UNCHANGED <<apiVars, maxContainers, usage, resultVars, queue, activeContainers,
                 runtimeVars, cur, err, success,
                 sweeperVars, submitVars, historyVars>>

\* ------------------------------------------------------------- executeTask
\* `activeContainers.size >= MAX_CONTAINERS`
PoolExhaustedOffByOne == Cardinality(activeContainers) > maxContainers
PoolExhausted == Cardinality(activeContainers) >= maxContainers

\* executeTask: no handle for the task and the pool is full: throws, outside any try.
AcquirePoolExhausted ==
  /\ pc = "acquire"
  /\ cur \notin activeContainers
  /\ PoolExhausted
  /\ Throw("Container pool exhausted", "catch")
  /\ UNCHANGED <<apiVars, maxContainers, usage, resultVars, queue, activeContainers,
                 runtimeVars, storeVars, cur, success,
                 sweeperVars, submitVars, registered, removed, envCreated, exitCode>>

\* executeTask: the handle is found in the map, or createContainer succeeds and the
\* handle is registered under taskId.
AcquireCreate ==
  /\ pc = "acquire"
  /\ IF cur \in activeContainers
     THEN UNCHANGED <<activeContainers, runtimeVars, registered, envCreated>>
     ELSE /\ ~PoolExhausted
          /\ docker[cur] = "none"      \* the name prefix+taskId is free
          /\ docker' = [docker EXCEPT ![cur] = "created"]
          /\ age' = [age EXCEPT ![cur] = 0]
          /\ envCreated' = envCreated \cup {cur}
          /\ activeContainers' = activeContainers \cup {cur}
          /\ registered' = [registered EXCEPT ![cur] = @ + 1]
  /\ pc' = "write"
  /\ UNCHANGED <<apiVars, maxContainers, usage, resultVars, queue, storeVars, cur, err,
                 success, sweeperVars, submitVars,
                 removed, exitCode, errOf>>

\* executeTask: docker.createContainer rejects (image missing, daemon error, name taken):
\* nothing was registered.
AcquireCreateFails ==
  /\ pc = "acquire"
  /\ cur \notin activeContainers
  /\ ~PoolExhausted
  /\ Throw("create failed", "catch")
  /\ UNCHANGED <<apiVars, maxContainers, usage, resultVars, queue, activeContainers,
                 runtimeVars, storeVars, cur, success,
                 sweeperVars, submitVars, registered, removed, envCreated, exitCode>>

\* executeTask: fs.writeFileSync of the envelope into the workspace. It stands before
\* the try block: when it throws, the finally block is not entered.
WriteWorkspace ==
  /\ pc = "write"
  /\ \/ /\ pc' = "start"
        /\ UNCHANGED <<err, errOf>>
     \/ Throw("workspace write failed", "catch")
  /\ UNCHANGED <<apiVars, maxContainers, usage, resultVars, queue, activeContainers,
                 runtimeVars, storeVars, cur, success,
                 sweeperVars, submitVars, registered, removed, envCreated, exitCode>>

\* executeTask: container.start(). It too stands before the try block.
StartContainer ==
  /\ pc = "start"
  /\ \/ /\ docker[cur] = "created"
        /\ docker' = [docker EXCEPT ![cur] = "running"]
        /\ pc' = "wait"
        /\ UNCHANGED <<err, errOf>>
     \/ /\ Throw("start failed", "catch")
        /\ UNCHANGED docker
  /\ UNCHANGED <<apiVars, maxContainers, usage, resultVars, queue, activeContainers, age,
                 storeVars, cur, success,
                 sweeperVars, submitVars, registered, removed, envCreated, exitCode>>

\* The environment's entrypoint ends with exit status `code`, having left in the
\* workspace no result artifact, one that holds JSON, or one that holds text JSON.parse
\* rejects; the pending container.wait() -- called without any timeout -- resolves
\* with that StatusCode.
ExitCodes == {0, 1}
Artifacts == {"absent", "valid", "invalid"}
ContainerExit ==
  /\ pc = "wait"
  /\ docker[cur] = "running"
  /\ \E code \in ExitCodes :
       /\ exitCode' = [exitCode EXCEPT ![cur] = code]
       /\ success' = (code = 0)
  /\ \E a \in Artifacts : artifact' = a
  /\ docker' = [docker EXCEPT ![cur] = "exited"]
  /\ pc' = "logs"
  /\ UNCHANGED <<apiVars, maxContainers, usage, resultData, stopRejected, queue,
                 activeContainers, age,
                 storeVars, cur, err,
                 sweeperVars, submitVars, registered, removed, envCreated, errOf>>

\* The container was force-removed (by the sweeper) while the wait was pending: the
\* wait resolves with the kill status.
KillCode == 137
WaitKilled ==
  /\ pc = "wait"
  /\ docker[cur] = "none"
  /\ exitCode' = [exitCode EXCEPT ![cur] = KillCode]
  /\ success' = (KillCode = 0)
  /\ pc' = "logs"
  /\ UNCHANGED <<apiVars, maxContainers, usage, resultVars, queue, activeContainers,
                 runtimeVars, storeVars, cur, err,
                 sweeperVars, submitVars, registered, removed, envCreated, errOf>>

\* container.wait() rejects (daemon error): caught, rethrown, finally runs.
WaitFails ==
  /\ pc = "wait"
  /\ docker[cur] = "running"
  /\ Throw("wait failed", "finally")
  /\ UNCHANGED <<apiVars, maxContainers, usage, resultVars, queue, activeContainers,
                 runtimeVars, storeVars, cur, success,
                 sweeperVars, submitVars, registered, removed, envCreated, exitCode>>

\* HostConfig.AutoRemove: the runtime removes a container once it has exited.
AutoRemove ==
  /\ \E t \in Tasks :
       /\ docker[t] = "exited"
       /\ docker' = [docker EXCEPT ![t] = "none"]
       /\ age' = [age EXCEPT ![t] = 0]
  /\ UNCHANGED <<apiVars, maxContainers, usage, resultVars, queue, activeContainers,
                 storeVars, consumerVars,
                 sweeperVars, submitVars, historyVars>>

\* executeTask: container.logs(): rejects when the container no longer exists.
Logs ==
  /\ pc = "logs"
  /\ IF docker[cur] = "none"
     THEN Throw("no such container", "finally")
     ELSE pc' = "result" /\ UNCHANGED <<err, errOf>>
  /\ UNCHANGED <<apiVars, maxContainers, usage, resultVars, queue, activeContainers,
                 runtimeVars, storeVars, cur, success,
                 sweeperVars, submitVars, registered, removed, envCreated, exitCode>>

\* executeTask: resultData stays null when fs.existsSync finds no artifact; else it is
\* JSON.parse of the file, which throws on text that is not JSON.
ReadResult ==
  /\ pc = "result"
  /\ IF artifact = "invalid"
     THEN Throw("result parse failed", "finally") /\ UNCHANGED resultData
     ELSE /\ pc' = "finally"
          /\ resultData' = IF artifact = "valid" THEN "data" ELSE "null"
          /\ UNCHANGED <<err, errOf>>
  /\ UNCHANGED <<apiVars, maxContainers, usage, artifact, stopRejected, queue,
                 activeContainers,
                 runtimeVars, storeVars, cur, success,
                 sweeperVars, submitVars, registered, removed, envCreated, exitCode>>

\* container.stop({t: 0}) rejects when the runtime no longer has the container (it was
\* removed automatically after its exit, or by the sweeper).
StopRejects == docker[cur] = "none"

\* The keys of activeContainers after `await container.stop({t: 0}).catch(() => {})` and
\* `activeContainers.delete(taskId)`: the rejection is swallowed where it arises, so
\* the delete runs whether stop resolved or rejected.
HandlesAfterStopUncaught(rejects) ==
  IF rejects THEN activeContainers ELSE activeContainers \ {cur}
HandlesAfterStop(rejects) == activeContainers \ {cur}

\* executeTask: the finally block: container.stop({t: 0}) with its rejection swallowed,
\* then activeContainers.delete(taskId); then the return or the rethrow takes effect.
\* stop() resolves once the container has stopped; the AutoRemove of a container that
\* has stopped or exited is complete by then, so it is gone from the runtime.
Finally ==
  /\ pc = "finally"
  /\ stopRejected' = StopRejects
  /\ docker' = [docker EXCEPT ![cur] = IF @ \in {"running", "exited"} THEN "none" ELSE @]
  /\ age' = [age EXCEPT ![cur] = IF docker[cur] \in {"running", "exited"} THEN 0 ELSE @]
  /\ activeContainers' = HandlesAfterStop(StopRejects)
  /\ removed' = [removed EXCEPT ![cur] = @ + 1]
  /\ pc' = IF err = "none" THEN "finalizing" ELSE "catch"
  /\ UNCHANGED <<apiVars, maxContainers, usage, artifact, resultData, queue, storeVars,
                 cur, err, success, sweeperVars,
                 submitVars, registered, envCreated, exitCode, errOf>>

\* ------------------------------------------------------------- processTask, after executeTask
\* processTask: third updateProgress (90%, finalizing); it runs whatever result.success is.
Finalizing ==
  /\ pc = "finalizing"
  /\ UpdateProgress(cur, FinalizingEvent)
  /\ pc' = AwaitFetch(cur, "fetch@finalizing", "save")
  /\ UNCHANGED <<apiVars, maxContainers, usage, resultVars, queue, activeContainers,
                 runtimeVars, cur, err, success,
                 sweeperVars, submitVars, historyVars>>

\* processTask: the final redis.hset (status, progress, step, message) and the final
\* redis.publish.
SaveResult ==
  /\ pc = "save"
  /\ record' = [record EXCEPT ![cur] = FinalRecord(success, resultData)]
  /\ published' = [published EXCEPT ![cur] = Append(published[cur], FinalEvent(success))]
  /\ UNCHANGED delivered
  /\ pc' = "metrics"
  /\ UNCHANGED <<apiVars, maxContainers, usage, resultVars, queue, activeContainers,
                 runtimeVars, cur, err, success,
                 sweeperVars, submitVars, historyVars>>

\* processTask: the usage counters; apiKey.substring throws when the envelope carries
\* no apiKey, before any counter is touched, and then the catch block runs although
\* the task is already in its terminal state.
UsageIncr(ok) == [usage EXCEPT ![IF ok THEN "completed" ELSE "failed"] = @ + 1]
Metrics ==
  /\ pc = "metrics"
  /\ \/ /\ usage' = UsageIncr(success)
        /\ pc' = "dequeue"
        /\ cur' = NoTask
        /\ success' = FALSE
        /\ artifact' = "unwritten"
        /\ resultData' = "null"
        /\ stopRejected' = FALSE
        /\ UNCHANGED <<err, errOf>>
     \/ /\ Throw("metrics failed", "catch")
        /\ UNCHANGED <<usage, cur, success, resultVars>>
  /\ UNCHANGED <<apiVars, maxContainers, queue, activeContainers, runtimeVars, storeVars,
                 sweeperVars, submitVars, registered, removed, envCreated, exitCode>>

\* The task the catch block marks as failed: it pops the left end of the queue and
\* reads the id of whatever envelope it finds there (NoTask: nothing to mark).
CatchTargetCurrent == cur
CatchTarget ==
  IF queue = <<>> THEN NoTask
  ELSE LET env == JSONparse(LPOP(queue).msg) IN IF env.ok THEN env.id ELSE NoTask

\* Where control goes when the handler in the catch block itself throws: the inner
\* catch logs the error and processTask returns normally.
HandlerFailureEscapes == "crashed"
HandlerFailure == "dequeue"

\* processTask: the catch block: redis.lpop, JSON.parse, updateProgress(taskData.id, ...);
\* an error in there (JSON.parse of a popped message that is not JSON) goes to the
\* inner catch. processTask then returns.
Catch ==
  /\ pc = "catch"
  /\ queue' = IF queue = <<>> THEN queue ELSE LPOP(queue).rest
  /\ IF CatchTarget \in Tasks
     THEN /\ UpdateProgress(CatchTarget, ErrorEvent(err))
          /\ pc' = AwaitFetch(CatchTarget, "fetch@catch", "dequeue")
     ELSE /\ UNCHANGED storeVars
          /\ pc' = IF queue # <<>> /\ ~JSONparse(LPOP(queue).msg).ok
                   THEN HandlerFailure
                   ELSE "dequeue"
  /\ cur' = NoTask
  /\ err' = "none"
  /\ success' = FALSE
  /\ artifact' = "unwritten"
  /\ resultData' = "null"
  /\ stopRejected' = FALSE
  /\ UNCHANGED <<apiVars, maxContainers, usage, activeContainers, runtimeVars, sweeperVars,
                 submitVars,
                 historyVars>>

\* The fetch awaited by updateProgress settles: a response, a network error, or the
\* HTTP client giving up; every outcome is swallowed and updateProgress returns.
WebhookSettles ==
  /\ pc \in DOMAIN ResumeAt
  /\ pc' = ResumeAt[pc]
  /\ UNCHANGED <<apiVars, maxContainers, usage, resultVars, queue, activeContainers,
                 runtimeVars,
                 storeVars, cur, err, success, sweeperVars, submitVars, historyVars>>

\* ------------------------------------------------------------- time
\* Time passes only where the consumer is suspended on something outside: in brpop
\* on an empty queue, in container.wait(), or in the fetch of a webhook. Every
\* existing container grows older.
Suspended ==
  \/ pc = "wait"
  \/ pc = "dequeue" /\ queue = <<>>
  \/ pc \in DOMAIN ResumeAt

Tick ==
  /\ Suspended
  /\ spc = "idle"
  /\ \E t \in Tasks : docker[t] # "none" /\ age[t] < MaxAge
  /\ age' = [t \in Tasks |->
               IF docker[t] # "none" /\ age[t] < MaxAge THEN age[t] + 1 ELSE age[t]]
  /\ UNCHANGED <<apiVars, maxContainers, usage, resultVars, queue, activeContainers, docker,
                 storeVars, consumerVars,
                 sweeperVars, submitVars, historyVars>>

\* ------------------------------------------------------------- cleanup sweeper
\* cleanup: docker.listContainers({all: true, filters: {name: [prefix]}}). The interval
\* timer expires while time passes; a tick that finds no container older than
\* cleanupAfterMs changes nothing and is left out.
SweeperList ==
  /\ spc = "idle"
  /\ Suspended
  /\ \E t \in Tasks : docker[t] # "none" /\ age[t] > CleanupAfterMs
  /\ slist' = {t \in Tasks : docker[t] # "none"}
  /\ sstale' = {t \in Tasks : docker[t] # "none" /\ age[t] > CleanupAfterMs}
  /\ spc' = "loop"
  /\ UNCHANGED <<apiVars, maxContainers, usage, resultVars, queue, activeContainers,
                 runtimeVars, storeVars,
                 consumerVars, submitVars, historyVars>>

\* cleanup: the keys of activeContainers after `container.remove({ force: true })` of
\* the container of task t: cleanup works on the runtime alone and has no statement
\* that reads or writes the map.
HandlesAfterRemoveUnregisters(t) == activeContainers \ {t}
HandlesAfterRemove(t) == activeContainers

\* cleanup: one turn of the for loop: inspect (rejects when the container is gone, which
\* the outer catch turns into the end of this tick), the age test, remove({force: true}).
SweeperVisit ==
  /\ spc = "loop"
  /\ \E t \in slist :
       IF docker[t] = "none"
       THEN /\ slist' = {}
            /\ spc' = "idle"
            /\ sstale' = {}
            /\ UNCHANGED <<runtimeVars, activeContainers>>
       ELSE /\ slist' = slist \ {t}
            /\ spc' = IF slist \ {t} = {} THEN "idle" ELSE "loop"
            /\ sstale' = IF slist \ {t} = {} THEN {} ELSE sstale
            /\ IF age[t] > CleanupAfterMs
               THEN /\ docker' = [docker EXCEPT ![t] = "none"]
                    /\ age' = [age EXCEPT ![t] = 0]
                    /\ activeContainers' = HandlesAfterRemove(t)
               ELSE UNCHANGED <<runtimeVars, activeContainers>>
  /\ UNCHANGED <<apiVars, maxContainers, usage, resultVars, queue, storeVars,
                 consumerVars, submitVars, historyVars>>

\* ------------------------------------------------------------- API server
\* The API server (src/api/server.js) runs executeTask in its own process, without the
\* queue. One action is one run of the event loop: the code from one await to the next,
\* which no poll request can interrupt.
MaxTools == 81         \* largest tools.length explored
NullTools == -1        \* `tools` is null: it has no length
ToolProgress == 20     \* const toolProgress = 20

\* Math.floor((100 - toolProgress) / (tools.length || 1))
ProgressPerToolCeil(n) ==
  ((100 - ToolProgress) + (IF n = 0 THEN 1 ELSE n) - 1) \div (IF n = 0 THEN 1 ELSE n)
ProgressPerTool(n) == (100 - ToolProgress) \div (IF n = 0 THEN 1 ELSE n)

\* const progress = toolProgress + (i + 1) * progressPerTool
ToolProgressAt(n, i) == ToolProgress + (i + 1) * ProgressPerTool(n)

\* updateTaskProgress(taskId, progress, step, message): the entry it stores for polling.
UpdateTaskProgress(progress, step) ==
  [status |-> IF progress < 100 THEN "running" ELSE "completed",
   progress |-> progress, step |-> step]

\* The .then callback of the POST handler: taskResults.set with progress 100.
ThenResult(status) == [status |-> status, progress |-> 100, step |-> status]

\* GET /api/v1/tasks/:taskId/poll: `result?.progress || taskData.progress || 0`; both
\* stores hold the same progress, so a falsy value of the first yields 0.
PollProgress == taskResults.progress

\* POST /api/v1/tasks: the task is stored as pending with progress 0.
ApiSubmit ==
  /\ apiPc = "idle"
  /\ \E n \in {NullTools} \cup 0..MaxTools : apiTools' = n
  /\ taskResults' = [status |-> "pending", progress |-> 0, step |-> "queued"]
  /\ apiPc' = "submitted"
  /\ UNCHANGED <<executorVars, creditVars, apiI, apiWrites, apiFailed>>

\* executeTask up to its first await. Without tools it runs to its end, and the .then
\* callback with it; `tools.length` of null throws into the catch block.
ApiStart ==
  /\ apiPc = "submitted"
  /\ IF apiTools = NullTools
     THEN /\ apiWrites' = <<10, 0>>
          /\ apiFailed' = TRUE
          /\ taskResults' = ThenResult("failed")
          /\ apiPc' = "done"
     ELSE IF apiTools = 0
     THEN /\ apiWrites' = <<10, 90, 100>>
          /\ taskResults' = ThenResult("completed")
          /\ apiPc' = "done"
          /\ UNCHANGED apiFailed
     ELSE /\ apiWrites' = <<10, ToolProgressAt(apiTools, 0)>>
          /\ taskResults' = UpdateTaskProgress(ToolProgressAt(apiTools, 0), "tool")
          /\ apiPc' = "skill"
          /\ UNCHANGED apiFailed
  /\ UNCHANGED <<executorVars, creditVars, apiTools, apiI>>

\* The awaited executeSkill settles: it resolved, or it threw and the inner catch pushed
\* an error step instead of a success step. Either way the loop goes on to the next
\* tool, or executeTask runs to its end (90%, the output, 100%) and the .then callback
\* with it.
ApiSkillSettles ==
  /\ apiPc = "skill"
  /\ IF apiI + 1 < apiTools
     THEN /\ apiI' = apiI + 1
          /\ apiWrites' = Append(apiWrites, ToolProgressAt(apiTools, apiI + 1))
          /\ taskResults' = UpdateTaskProgress(ToolProgressAt(apiTools, apiI + 1), "tool")
          /\ apiPc' = "skill"
     ELSE /\ apiI' = apiI + 1
          /\ apiWrites' = apiWrites \o <<90, 100>>
          /\ taskResults' = ThenResult("completed")
          /\ apiPc' = "done"
  /\ UNCHANGED <<executorVars, creditVars, apiTools, apiFailed>>

NextApi ==
  \/ ApiSubmit
  \/ ApiStart
  \/ ApiSkillSettles

SpecApi == Init /\ [][NextApi]_vars

\* ------------------------------------------------------------- task submission and credits
\* POST /api/v1/tasks of api/index.js (PostgreSQL through pool.query) and of the API
\* server (SQLite through the synchronous functions of db/user.js), each for requests
\* of one user. One action is the code a request runs between two awaits; a statement
\* sent with pool.query is executed by the database as one atomic step.
taskVars == <<apiPc, apiTools, apiI, taskResults, apiWrites, apiFailed>>

\* api/index.js: `SELECT credits FROM users`, then `if (credits <= 0)` answers 402.
PgCheckCredits(r) ==
  /\ pgPc[r] = "idle"
  /\ pgPc' = [pgPc EXCEPT ![r] = IF pgCredits <= 0 THEN "402" ELSE "insert"]
  /\ UNCHANGED <<executorVars, taskVars, pgCredits, pgTasks, dbCredits, dbPc, dbTasks>>

\* api/index.js: `INSERT INTO tasks (...)`.
PgInsertTask(r) ==
  /\ pgPc[r] = "insert"
  /\ pgTasks' = pgTasks \cup {r}
  /\ pgPc' = [pgPc EXCEPT ![r] = "update"]
  /\ UNCHANGED <<executorVars, taskVars, pgCredits, dbCredits, dbPc, dbTasks>>

\* api/index.js: `UPDATE users SET credits = credits - 1`, then the 200 response.
PgDeductCredits(r) ==
  /\ pgPc[r] = "update"
  /\ pgCredits' = pgCredits - 1
  /\ pgPc' = [pgPc EXCEPT ![r] = "200"]
  /\ UNCHANGED <<executorVars, taskVars, pgTasks, dbCredits, dbPc, dbTasks>>

\* deductTaskCredits(userId) of db/user.js: without credits it returns
\* {success: false} and leaves the balance; else updateCredits(userId, -1, ...).
DeductTaskCredits(credits) == IF credits <= 0 THEN credits ELSE credits - 1

\* API server: `getCredits(req.user.id)`, `if (currentCredits <= 0)` answers 402, else
\* the handler awaits parseBody.
DbCheckCredits(r) ==
  /\ dbPc[r] = "idle"
  /\ dbPc' = [dbPc EXCEPT ![r] = IF dbCredits <= 0 THEN "402" ELSE "parseBody"]
  /\ UNCHANGED <<executorVars, taskVars, pgCredits, pgPc, pgTasks, dbCredits, dbTasks>>

\* API server: the body has arrived: 400 without a task; else createTask,
\* taskStore.set and deductTaskCredits, whose result the handler does not look at,
\* and the task is executed and answered with 200.
DbCreateTask(r) ==
  /\ dbPc[r] = "parseBody"
  /\ \/ /\ dbPc' = [dbPc EXCEPT ![r] = "400"]
        /\ UNCHANGED <<dbCredits, dbTasks>>
     \/ /\ dbTasks' = dbTasks \cup {r}
        /\ dbCredits' = DeductTaskCredits(dbCredits)
        /\ dbPc' = [dbPc EXCEPT ![r] = "200"]
  /\ UNCHANGED <<executorVars, taskVars, pgCredits, pgPc, pgTasks>>

NextCredits ==
  \/ \E r \in Requests : PgCheckCredits(r)
  \/ \E r \in Requests : PgInsertTask(r)
  \/ \E r \in Requests : PgDeductCredits(r)
  \/ \E r \in Requests : DbCheckCredits(r)
  \/ \E r \in Requests : DbCreateTask(r)

SpecCredits == Init /\ [][NextCredits]_vars

\* ------------------------------------------------------------- updateProgress alone
\* updateProgress as a function of its argument: the calls explored give any subset of
\* the fields status, progress, step and message ("absent", -1: the field is left out).
MaxUpdates == 2        \* calls of updateProgress explored
UpdatedTask == 1       \* the taskId of the calls

PartialFields ==
  [status : {"absent", "running"}, progress : {-1, 10, 30},
   step : {"absent", "starting"}, message : {"absent", "Task started"}]

CallUpdateProgress ==
  /\ Len(published[UpdatedTask]) < MaxUpdates
  /\ \E ev \in PartialFields : UpdateProgress(UpdatedTask, ev)
  /\ UNCHANGED <<apiVars, maxContainers, usage, resultVars, queue, activeContainers,
                 runtimeVars, consumerVars, sweeperVars, submitVars, historyVars>>

NextUpdate == CallUpdateProgress

SpecUpdate == Init /\ [][NextUpdate]_vars

\* ------------------------------------------------------------- specification
Next ==
  \/ Submit
  \/ SubmitGarbage
  \/ Dequeue
  \/ Starting
  \/ Initializing
  \/ AcquirePoolExhausted
  \/ AcquireCreate
  \/ AcquireCreateFails
  \/ WriteWorkspace
  \/ StartContainer
  \/ ContainerExit
  \/ WaitKilled
  \/ WaitFails
  \/ AutoRemove
  \/ Logs
  \/ ReadResult
  \/ Finally
  \/ Finalizing
  \/ SaveResult
  \/ Metrics
  \/ Catch
  \/ WebhookSettles
  \/ Tick
  \/ SweeperList
  \/ SweeperVisit

Spec == Init /\ [][Next]_vars

\* ------------------------------------------------------------- properties
Terminal(status) == status \in {"completed", "failed"}
InQueue(t) == \E i \in 1..Len(queue) : queue[i] = Envelope(t)
\* processTask has returned for task t (or has not taken it up).
NotInHand(t) == cur # t
ProgressSeq(t) == [i \in 1..Len(published[t]) |-> published[t][i].progress]

\* C1: in every reachable state the active-handle map holds at most N = maxContainers
\* entries.
C1_PoolBounded == Cardinality(activeContainers) <= maxContainers

\* C1 witness: the map is full and a task has just been refused with pool exhaustion.
C1_Witness ==
  /\ pc = "catch"
  /\ err = "Container pool exhausted"
  /\ Cardinality(activeContainers) = maxContainers

\* C2: every handle executeTask registers is cleaned up exactly once on every exit
\* path: once processTask has returned for the task, its registration is matched by
\* one deletion and the map no longer holds it.
C2_EveryHandleReleased ==
  \A t \in Tasks :
    (registered[t] > 0 /\ NotInHand(t)) =>
      (removed[t] = registered[t] /\ t \notin activeContainers)

\* C3: the wait on an environment ends at the task timeout: no environment is still
\* running, with the supervisor still waiting on it, after more than TaskTimeout.
C3_WaitEndsAtTimeout ==
  \A t \in Tasks : (docker[t] = "running" /\ pc = "wait" /\ cur = t) => age[t] <= TaskTimeout

\* C4: when processing of task T raised an error at any step of acquiring, starting,
\* waiting, capturing logs or parsing the result, T's persisted status ends as failed.
C4_ErrorMarksTaskFailed ==
  \A t \in Tasks :
    (errOf[t] \notin {"none", "metrics failed"} /\ NotInHand(t)) => record[t].status = "failed"

\* C5: handling a non-JSON message writes no Task State and publishes nothing, and
\* takes no valid message off the queue.
C5_MalformedIsDropped ==
  [][(pc = "catch" /\ err = "malformed" /\ pc' = "dequeue") =>
       /\ record' = record
       /\ published' = published
       /\ \A i \in 1..Len(queue) :
            queue[i].json => \E j \in 1..Len(queue') : queue'[j] = queue[i]]_vars

\* C6: for every task, each progress value published before the terminal event is at
\* least the one before it, and the persisted progress is the last published one.
C6_ProgressMonotone ==
  \A t \in Tasks :
    /\ \A i \in 1..(Len(published[t]) - 1) :
         ~Terminal(published[t][i + 1].status) =>
           published[t][i].progress <= published[t][i + 1].progress
    /\ record[t].progress =
         IF published[t] = <<>> THEN NoRecord.progress
         ELSE published[t][Len(published[t])].progress

\* C6 witness: a task has gone through starting, initializing and finalizing.
C6_Witness ==
  \E t \in Tasks : ProgressSeq(t) = <<10, 30, 90>> /\ record[t].progress = 90

\* C7: a task whose environment was created, started and exited with code 0 shows the
\* progress sequence 10, 30, 90, 100, ends completed, and its handle was registered
\* once and removed once.
C7_HappyPath ==
  \A t \in Tasks :
    (exitCode[t] = 0 /\ NotInHand(t)) =>
      /\ ProgressSeq(t) = <<10, 30, 90, 100>>
      /\ record[t].status = "completed"
      /\ registered[t] = 1
      /\ removed[t] = 1

\* C8: a task refused with pool exhaustion gets no environment and ends with
\* status failed, progress 0, step "failed" and a message naming pool exhaustion.
C8_PoolExhaustedFails ==
  \A t \in Tasks :
    (errOf[t] = "Container pool exhausted" /\ NotInHand(t)) =>
      /\ t \notin envCreated
      /\ record[t].status = "failed"
      /\ record[t].progress = 0
      /\ record[t].step = "failed"
      /\ record[t].message = "Container pool exhausted"

C10_TerminalIsFinal ==
  [][\A t \in Tasks :
       Terminal(record[t].status) =>
         /\ record'[t].status = record[t].status
         /\ record'[t].progress = record[t].progress
         /\ record'[t].step = record[t].step]_vars

\* C10 witness: a task is in a terminal state and the catch block has run after that
\* (the metrics update threw), popping the queue's left end.
C10_Witness ==
  \E t \in Tasks :
    /\ Terminal(record[t].status)
    /\ errOf[t] = "metrics failed"
    /\ NotInHand(t)
    /\ \E u \in Tasks : record[u].step = "error"

\* C11: after updateProgress returns, every field it was given, status included, is in
\* the persisted record: the record agrees with the last event published for the task,
\* so a task between its starting event and its terminal state is persisted as running.
C11_UpdatePersistsGivenFields ==
  \A t \in Tasks :
    published[t] # <<>> =>
      LET ev == published[t][Len(published[t])]
      IN /\ record[t].status = ev.status
         /\ record[t].progress = ev.progress
         /\ record[t].step = ev.step

\* C12: for a task whose record carries a callback URL, every progress event that is
\* persisted and published, the terminal completed/failed event included, gets exactly
\* one outbound delivery attempt.
C12_EveryEventDelivered ==
  \A t \in Tasks : webhookUrl[t] => delivered[t] = Len(published[t])

\* C13: when a sweeper tick completes, no environment that matched the prefix and was
\* older than cleanupAfterMs when the tick listed the environments remains in the
\* runtime, whether or not the active-handle map has an entry for it.
C13_TickRemovesEveryStale ==
  [][(spc = "loop" /\ spc' = "idle") => \A t \in sstale : docker'[t] = "none"]_vars

\* C14: an environment that has disappeared between the listing and its turn in the
\* loop is a no-op for the tick: the tick goes on to examine every other environment
\* of its list, so it ends only with the last environment of the list.
C14_VanishedIsSkipped ==
  [][(spc = "loop" /\ spc' = "idle") => Cardinality(slist) = 1]_vars

\* C15: a task whose environment exits with code 0 and leaves no result artifact in
\* the workspace ends its processing with status = completed and a null result.
C15_MissingArtifactCompletes ==
  [][\A t \in Tasks :
       (cur = t /\ cur' # t /\ exitCode[t] = 0 /\ artifact = "absent") =>
         (record'[t].status = "completed" /\ record'[t].result = "null")]_vars

\* The steps the consumer takes by itself, needing nothing from outside the executor
\* (no message to arrive, no environment to exit, no endpoint to answer).
ConsumerStep ==
  \/ Starting \/ Initializing
  \/ AcquirePoolExhausted \/ AcquireCreate \/ AcquireCreateFails
  \/ WriteWorkspace \/ StartContainer \/ Logs \/ ReadResult \/ Finally
  \/ Finalizing \/ SaveResult \/ Metrics \/ Catch

EndedCompleted(t) == cur # t /\ record[t].status = "completed"
EndedFailed(t) ==
  /\ cur # t
  /\ \/ record[t].status = "failed"
     \/ record[t].status # "completed" /\ errOf[t] # "none"

\* C17: for every task that reached a terminal state -- completed, failed by a non-zero
\* exit, or failed by an error such as pool exhaustion or a start failure -- exactly one
\* of the two usage counters was incremented, by exactly one: between two tasks the
\* completed counter counts the completed tasks and the failed counter the failed ones.
C17_EveryTerminalTaskCounted ==
  pc = "dequeue" =>
    /\ usage.completed = Cardinality({t \in Tasks : EndedCompleted(t)})
    /\ usage.failed = Cardinality({t \in Tasks : EndedFailed(t)})

\* C18: the consumer removes a message from the inbound queue only when it has no task
\* in hand: never while a task it dequeued earlier is still being processed.
C18_DequeueOnlyBetweenTasks ==
  [][Len(queue') < Len(queue) => cur = NoTask]_vars

\* C19: no error raised while a message is handled ends the consumer loop: with an error
\* in flight, or in the catch block (where the handler itself may throw), every step
\* stays inside processTask's error handling or returns to the next blocking dequeue.
C19_ErrorsNeverEndTheLoop ==
  [][(err # "none" \/ pc = "catch") =>
       pc' \in {"finally", "catch", "fetch@catch", "dequeue"}]_vars

\* A per-task failure is being handled and the message the handler is about to pop is
\* not JSON: the handler's own JSON.parse will throw inside the catch block.
C19_Witness ==
  /\ pc = "catch"
  /\ cur \in Tasks
  /\ err \notin {"none", "malformed"}
  /\ queue # <<>>
  /\ ~JSONparse(LPOP(queue).msg).ok

\* C20: in the API server's executeTask, for every number of requested tools, the
\* progress a poller can read during a run that does not fail lies between 10 and 100,
\* never decreases, and is 100 at the end.
C20_PolledProgressMonotone ==
  /\ [](apiPc \in {"skill", "done"} /\ ~apiFailed =>
          /\ PollProgress \in 10..100
          /\ apiPc = "done" => PollProgress = 100)
  /\ [][~apiFailed' => PollProgress' >= PollProgress]_vars

\* A run with one tool has ended: updateTaskProgress was given 10, 100, 90 and 100.
C20_Witness ==
  /\ apiPc = "done"
  /\ apiTools = 1
  /\ apiWrites = <<10, 100, 90, 100>>
  /\ PollProgress = 100

\* C21: in the API server the polled status is completed only when every requested
\* tool has been executed and the output generated (executeTask has run to its end),
\* and a task reported completed is never reported running afterwards.
C21_CompletedOnlyAtTheEnd ==
  /\ [](taskResults.status = "completed" => apiPc = "done")
  /\ [][taskResults.status = "completed" => taskResults'.status # "running"]_vars

\* The task has an event with the given step among those published for it.
HasStep(t, step) == \E i \in 1..Len(published[t]) : published[t][i].step = step

\* C22: a task whose environment exits with a non-zero code goes from running straight
\* to failed: no "finalizing"/90% event is persisted or published for it, and its final
\* state (when executeTask returned its result) is status failed, progress 0, step "failed".
C22_NonZeroExitSkipsFinalizing ==
  \A t \in Tasks :
    exitCode[t] \notin {NoExit, 0} =>
      /\ ~HasStep(t, "finalizing")
      /\ record[t].step # "finalizing"
      /\ (NotInHand(t) /\ errOf[t] = "none") =>
           /\ record[t].status = "failed"
           /\ record[t].progress = 0
           /\ record[t].step = "failed"

\* C23: the 30% / "initializing" event of a task is emitted only once its handle is
\* registered in the active-handle map and its workspace file written; a task that
\* fails with pool exhaustion never has it.
C23_InitializingAfterAcquire ==
  \A t \in Tasks :
    HasStep(t, "initializing") =>
      /\ registered[t] > 0
      /\ ~(cur = t /\ pc \in {"fetch@initializing", "acquire", "write"})
      /\ errOf[t] \notin {"Container pool exhausted", "create failed", "workspace write failed"}


\* C27: the error handling of one task never touches another task: while the handler
\* of task A's error runs, a different task B that is waiting in the queue stays in
\* the queue, and B's stored state and B's channel are left as they were.
C27_ErrorTouchesOnlyItsTask ==
  [][\A b \in Tasks :
       (pc = "catch" /\ cur \in Tasks /\ cur # b /\ InQueue(b)) =>
         /\ InQueue(b)'
         /\ record'[b] = record[b]
         /\ published'[b] = published[b]]_vars

\* C28: a task whose environment exited with code 0 ends completed in every
\* interleaving of the environment's automatic removal with the capture of its
\* output: the removal coming first does not make the task anything but completed.
C28_ExitZeroCompletesDespiteAutoRemove ==
  \A t \in Tasks :
    (exitCode[t] = 0 /\ NotInHand(t) /\ errOf[t] \in {"none", "no such container"}) =>
      record[t].status = "completed"

\* C29: with cleanupAfterMs above the task timeout, the sweeper never force-removes
\* the environment of a task that is being processed and whose id is in the map of
\* active handles.
C29_SweeperSparesActiveTasks ==
  [][\A t \in Tasks :
       (spc = "loop" /\ slist' # slist /\ docker[t] # "none" /\ docker'[t] = "none"
          /\ cur = t /\ CleanupAfterMs > TaskTimeout) =>
         t \notin activeContainers]_vars


\* C24: when stopping the environment fails in the cleanup of executeTask, the failure
\* goes no further: executeTask still hands on its result (or the error it was already
\* throwing, unchanged), and the task's entry is deleted from the map of active handles.
C24_StopFailureIsSwallowed ==
  [][(pc = "finally" /\ pc' # pc /\ StopRejects) =>
       /\ stopRejected'
       /\ cur \notin activeContainers'
       /\ err' = err
       /\ success' = success
       /\ resultData' = resultData
       /\ pc' = IF err = "none" THEN "finalizing" ELSE "catch"]_vars

\* executeTask returned its result to processTask although the stop of the task's
\* environment was rejected, and the task's handle is gone from the map.
C24_Witness ==
  /\ pc = "finalizing"
  /\ stopRejected
  /\ err = "none"
  /\ success
  /\ resultData = "data"
  /\ cur \notin activeContainers


\* C25: a tick of the cleanup sweeper (listing the environments, visiting one of them,
\* force-removing it) leaves the map of active handles as it was.
C25_SweeperLeavesTheMap ==
  [][(spc' # spc \/ slist' # slist) => activeContainers' = activeContainers]_vars

\* The sweeper has force-removed the running environment of the task in hand, and the
\* task's id is still in the map of active handles.
C25_Witness ==
  /\ cur \in Tasks
  /\ pc = "wait"
  /\ docker[cur] = "none"
  /\ cur \in activeContainers


\* C26: updateProgress leaves every persisted field that its argument does not give
\* as it was: a call without progress, step or message does not reset the stored
\* progress, step or message.
C26_UpdateKeepsAbsentFields ==
  [][\A t \in Tasks :
       Len(published'[t]) > Len(published[t]) =>
         LET given == published'[t][Len(published'[t])] IN
           /\ (given.progress = -1 /\ record[t].progress # -1) =>
                record'[t].progress = record[t].progress
           /\ (given.step = "absent" /\ record[t].step # "absent") =>
                record'[t].step = record[t].step
           /\ (given.message = "absent" /\ record[t].message # "absent") =>
                record'[t].message = record[t].message]_vars


\* C30: for every interleaving of the submissions of one user, the user's credit
\* balance never goes below zero, and every accepted task has cost exactly one
\* credit: once no submission is under way, the balance has gone down by the number
\* of tasks accepted.
C30_CreditsPayForEveryTask ==
  /\ pgCredits >= 0
  /\ dbCredits >= 0
  /\ (\A r \in Requests : pgPc[r] \in {"idle", "402", "200"}) =>
       InitialCredits - pgCredits = Cardinality(pgTasks)
  /\ (\A r \in Requests : dbPc[r] \in {"idle", "402", "400", "200"}) =>
       InitialCredits - dbCredits = Cardinality(dbTasks)

====
